---- MODULE Spec2Model ----
(***************************************************************************)
(* A model of maxpre-rs: the Rust session wrapper (src/src/lib.rs) around  *)
(* the MaxPre preprocessing engine.  The wrapper's operations are the      *)
(* actions; the engine is the environment: it answers every call, and its  *)
(* answers are nondeterministic wherever the wrapper cannot determine them.*)
(***************************************************************************)
EXTENDS Integers, Sequences, FiniteSets, TLC

(***************************************************************************)
(* Bounds of the model.                                                    *)
(***************************************************************************)
\* usize and u64 are modelled UsizeBits wide (a scaled-down 64).
UsizeBits == 2
\* Largest number of objectives handed to MaxPre::new.
MaxObjs == 2
\* Largest number of soft clauses, over all objectives, handed to MaxPre::new.
MaxSofts == 2
\* Largest number of hard clauses handed to MaxPre::new.
MaxHards == 1

\* Largest number of rows of the engine's table after preprocessing.
MaxRows == 2
\* Largest number of original variables the engine reports.
MaxVar == 2
\* Largest number of literals held by the engine's assignment buffer.
MaxBuf == 2

UsizeMod == 2 ^ UsizeBits
UsizeMax == UsizeMod - 1

(***************************************************************************)
(* Literals (rustsat::types::Lit): index 2*var + polarity bit.             *)
(***************************************************************************)
PosLit(v) == 2 * v
NegLit(v) == 2 * v + 1
LitVar(l) == l \div 2
LitNeg(l) == l % 2 = 1

\* Lit::to_ipasir: magnitude var+1, sign carries the polarity.
ToIpasir(l) == IF LitNeg(l) THEN -(LitVar(l) + 1) ELSE LitVar(l) + 1

\* Lit::from_ipasir: Err on 0, else the literal of magnitude |v| and sign of v.
IpasirOk(v) == v # 0
FromIpasir(v) == IF v < 0 THEN NegLit((-v) - 1) ELSE PosLit(v - 1)

\* ffi::map_bool and ffi::FALSE: booleans cross the boundary as integers.
FFI_FALSE == 0
MapBool(b) == IF b THEN 1 ELSE 0

(***************************************************************************)
(* Input universes.                                                        *)
(***************************************************************************)
\* Clauses are sequences of literals: {1} and {-1, 2} in ipasir notation.
ClauseA == << PosLit(0) >>
ClauseB == << NegLit(0), PosLit(1) >>
Clauses == { ClauseA, ClauseB }
\* Soft weights a client supplies: zero, one and the largest usize.
Weights == {0, 1, UsizeMax}

SeqsUpTo(S, n) == UNION { [1 .. k -> S] : k \in 0 .. n }

\* RsHashMap<Clause, usize>: a function from a finite set of clauses.
EmptyMap == << >>
SoftMaps == UNION { [D -> Weights] : D \in SUBSET Clauses }
MapInsert(m, k, v) == [c \in (DOMAIN m) \cup {k} |-> IF c = k THEN v ELSE m[c]]

\* The iteration orders of a hash map: every permutation of its keys.
Orders(m) ==
  { s \in [1 .. Cardinality(DOMAIN m) -> DOMAIN m] :
      \A i, j \in DOMAIN s : i # j => s[i] # s[j] }

VARIABLES
  phase,      \* "none" before MaxPre::new, then "live"; "dropped" after the
              \* release; "panicked" when a call on the session panicked;
              \* "aborted" when a call without a session panicked
  given,      \* the arguments of MaxPre::new, held until the first call that
              \* is not a readback; << >> otherwise
  supplied,   \* the number of objectives handed to MaxPre::new
  n_obj,      \* MaxPre.n_obj
  eng_top,    \* the engine's top weight
  eng_table,  \* the engine's clause table: rows [lits, ws]
  eng_assign, \* the engine's assignment buffer
  extracted,  \* the extractions since the last mutating call (the last two)
  calls,      \* the engine calls of the most recent operation, in order
  lastOp,     \* the most recent operation
  ret         \* its return value

vars == <<phase, given, supplied, n_obj, eng_top, eng_table, eng_assign,
          extracted, calls, lastOp, ret>>

\* An engine call: the function, its arguments after the handle, its result.
Call(f, x, y, r) == [f |-> f, x |-> x, y |-> y, r |-> r]
NoArgs == << >>
NoRet == [kind |-> "none"]

(***************************************************************************)
(* MaxPre::new: the top weight and the initialization stream.              *)
(***************************************************************************)
RECURSIVE Concat(_)
Concat(ss) == IF ss = << >> THEN << >> ELSE Head(ss) \o Concat(Tail(ss))

\* The weights of all objectives in the order the folds visit them.
FoldWeights(softs, ords) ==
  Concat([i \in 1 .. Len(softs) |->
            [k \in 1 .. Len(ords[i]) |-> softs[i][ords[i][k]]]])

\* top + w on usize, overflow checks off: the sum wraps.
WrappingAdd(a, b) == (a + b) % UsizeMod

RECURSIVE FoldTop(_, _)
FoldTop(ws, top) ==
  IF ws = << >> THEN top ELSE FoldTop(Tail(ws), WrappingAdd(top, Head(ws)))

\* Some step of the fold leaves the usize range (a panic with overflow checks on).
RECURSIVE FoldOverflows(_, _)
FoldOverflows(ws, top) ==
  /\ ws # << >>
  /\ \/ top + Head(ws) >= UsizeMod
     \/ FoldOverflows(Tail(ws), WrappingAdd(top, Head(ws)))

TopOf(softs, ords) == FoldTop(FoldWeights(softs, ords), 1)

\* One clause on the initialization stream: its literals, then the 0 terminator.
InitClause(cl) ==
  [k \in 1 .. Len(cl) |-> Call("init_add_lit", ToIpasir(cl[k]), 0, 0)]
    \o << Call("init_add_lit", 0, 0, 0) >>

HardStream(hards) == Concat([i \in 1 .. Len(hards) |-> InitClause(hards[i])])

\* Variants of SoftClauseStream: the weight ahead of its placeholders, and
\* one placeholder for every objective up to and including idx.
SoftClauseStreamWeightFirst(idx, cl, w) ==
  << Call("init_add_weight", w, 0, 0) >>
    \o [k \in 1 .. idx |-> Call("init_add_weight", 0, 0, 0)]
    \o InitClause(cl)

SoftClauseStreamPadded(idx, cl, w) ==
  [k \in 1 .. idx + 1 |-> Call("init_add_weight", 0, 0, 0)]
    \o << Call("init_add_weight", w, 0, 0) >>
    \o InitClause(cl)

\* One soft clause of the objective with index idx.
SoftClauseStream(idx, cl, w) ==
  [k \in 1 .. idx |-> Call("init_add_weight", 0, 0, 0)]
    \o << Call("init_add_weight", w, 0, 0) >>
    \o InitClause(cl)

SoftStream(softs, ords) ==
  Concat([i \in 1 .. Len(softs) |->
            Concat([k \in 1 .. Len(ords[i]) |->
                      SoftClauseStream(i - 1, ords[i][k], softs[i][ords[i][k]])])])

\* Variant of NewCalls: the soft clauses ahead of the hard clauses.
NewCallsSoftFirst(hards, softs, ords, inprocessing) ==
  << Call("init_start", TopOf(softs, ords), MapBool(inprocessing), 0) >>
    \o SoftStream(softs, ords)
    \o HardStream(hards)
    \o << Call("init_finalize", 0, 0, 0) >>

NewCalls(hards, softs, ords, inprocessing) ==
  << Call("init_start", TopOf(softs, ords), MapBool(inprocessing), 0) >>
    \o HardStream(hards)
    \o SoftStream(softs, ords)
    \o << Call("init_finalize", 0, 0, 0) >>

(***************************************************************************)
(* The engine's side of initialization: it collects the streamed weights   *)
(* and literals into rows, a 0 literal closing the row.                    *)
(***************************************************************************)
RECURSIVE EngineRows(_, _, _, _)
EngineRows(cs, lits, ws, rows) ==
  IF cs = << >> THEN rows
  ELSE LET c == Head(cs) IN
       IF c.f = "init_add_weight"
         THEN EngineRows(Tail(cs), lits, Append(ws, c.x), rows)
       ELSE IF c.f = "init_add_lit" /\ c.x # 0
         THEN EngineRows(Tail(cs), Append(lits, c.x), ws, rows)
       ELSE IF c.f = "init_add_lit"
         THEN EngineRows(Tail(cs), << >>, << >>,
                         Append(rows, [lits |-> lits, ws |-> ws]))
       ELSE EngineRows(Tail(cs), lits, ws, rows)

\* The table the engine reports before any preprocessing: a row streamed
\* without weights is hard (top weight under every objective); a row streamed
\* with fewer weights than objectives reports pad for the missing ones.
EngineTable(cs, nobj, top, pad) ==
  LET rows == EngineRows(cs, << >>, << >>, << >>) IN
  [r \in 1 .. Len(rows) |->
     [lits |-> rows[r].lits,
      ws |-> [o \in 1 .. nobj |->
                IF rows[r].ws = << >> THEN top
                ELSE IF o <= Len(rows[r].ws) THEN rows[r].ws[o]
                ELSE pad]]]

\* One iteration order for every objective's map.
RECURSIVE OrderChoices(_)
OrderChoices(softs) ==
  IF softs = << >> THEN { << >> }
  ELSE { << o >> \o rest : o \in Orders(Head(softs)), rest \in OrderChoices(Tail(softs)) }

(***************************************************************************)
(* The engine's readbacks of its clause table.                             *)
(***************************************************************************)
\* cmaxpre_get_prepro_lit: the literal at lit_idx of row cl_idx, 0 past its end.
EngineLit(table, cl_idx, lit_idx) ==
  IF lit_idx < Len(table[cl_idx + 1].lits)
    THEN table[cl_idx + 1].lits[lit_idx + 1]
    ELSE 0

\* cmaxpre_get_prepro_weight: the weight of row cl_idx under objective obj_idx.
EngineWeight(table, cl_idx, obj_idx) == table[cl_idx + 1].ws[obj_idx + 1]

\* Variant of ReadClause: the 0 that ends the clause is decoded as well.
RECURSIVE ReadClauseDecodeZero(_, _, _, _)
ReadClauseDecodeZero(table, cl_idx, lit_idx, clause) ==
  LET lit == EngineLit(table, cl_idx, lit_idx) IN
  IF lit = 0 THEN Append(clause, FromIpasir(lit))
  ELSE ReadClauseDecodeZero(table, cl_idx, lit_idx + 1,
                            Append(clause, FromIpasir(lit)))

(***************************************************************************)
(* MaxPre::prepro_instance.                                                *)
(***************************************************************************)
\* The loop reading one clause: literals are decoded until the engine answers 0.
RECURSIVE ReadClause(_, _, _, _)
ReadClause(table, cl_idx, lit_idx, clause) ==
  LET lit == EngineLit(table, cl_idx, lit_idx) IN
  IF lit = 0 THEN clause
  ELSE ReadClause(table, cl_idx, lit_idx + 1, Append(clause, FromIpasir(lit)))

\* Variant of ResizeSofts: one objective more than the index asks for.
ResizeSoftsOneMore(softs, obj_idx) ==
  IF Len(softs) < obj_idx + 1
    THEN softs \o [k \in 1 .. (obj_idx + 2 - Len(softs)) |-> EmptyMap]
    ELSE softs

\* softs.resize(obj_idx + 1, Default::default()) when softs is shorter.
ResizeSofts(softs, obj_idx) ==
  IF Len(softs) < obj_idx + 1
    THEN softs \o [k \in 1 .. (obj_idx + 1 - Len(softs)) |-> EmptyMap]
    ELSE softs

\* Variant of IsSoftWeight: soft only below the top weight.
IsSoftWeightBelow(w, top) == w < top

\* The test deciding that a clause is soft under an objective.
IsSoftWeight(w, top) == w # top

\* The loop over the objectives of one row; acc is [softs, is_hard].
RECURSIVE ClassifyWeights(_, _, _, _, _, _, _)
ClassifyWeights(table, top, nobj, cl_idx, clause, obj_idx, acc) ==
  IF obj_idx >= nobj THEN acc
  ELSE LET w == EngineWeight(table, cl_idx, obj_idx) IN
       IF IsSoftWeight(w, top)
         THEN LET sized == ResizeSofts(acc.softs, obj_idx) IN
              ClassifyWeights(table, top, nobj, cl_idx, clause, obj_idx + 1,
                [softs |-> [sized EXCEPT ![obj_idx + 1] =
                                   MapInsert(@, clause, w)],
                 is_hard |-> FALSE])
         ELSE ClassifyWeights(table, top, nobj, cl_idx, clause, obj_idx + 1, acc)

\* Variant of ExtractRows: the clause is added to the hard clauses whatever
\* is_hard says.
RECURSIVE ExtractRowsKeepHard(_, _, _, _, _, _)
ExtractRowsKeepHard(table, top, nobj, cl_idx, n_cls, out) ==
  IF cl_idx >= n_cls THEN out
  ELSE LET clause == ReadClause(table, cl_idx, 0, << >>)
           res == ClassifyWeights(table, top, nobj, cl_idx, clause, 0,
                                  [softs |-> out.softs, is_hard |-> TRUE])
       IN ExtractRowsKeepHard(table, top, nobj, cl_idx + 1, n_cls,
            [hards |-> Append(out.hards, clause), softs |-> res.softs])

\* The loop over the rows; out is [hards, softs].
RECURSIVE ExtractRows(_, _, _, _, _, _)
ExtractRows(table, top, nobj, cl_idx, n_cls, out) ==
  IF cl_idx >= n_cls THEN out
  ELSE LET clause == ReadClause(table, cl_idx, 0, << >>)
           res == ClassifyWeights(table, top, nobj, cl_idx, clause, 0,
                                  [softs |-> out.softs, is_hard |-> TRUE])
       IN ExtractRows(table, top, nobj, cl_idx + 1, n_cls,
            [hards |-> IF res.is_hard THEN Append(out.hards, clause)
                       ELSE out.hards,
             softs |-> res.softs])

\* Variant of prepro_instance: the objective list starts with one empty map.
PreproInstanceOfPresized(table, top, nobj) ==
  ExtractRows(table, top, nobj, 0, Len(table),
              [hards |-> << >>, softs |-> << EmptyMap >>])

PreproInstanceOf(table, top, nobj) ==
  ExtractRows(table, top, nobj, 0, Len(table), [hards |-> << >>, softs |-> << >>])

\* The engine calls of prepro_instance, in order.
RECURSIVE ReadClauseCalls(_, _, _)
ReadClauseCalls(table, cl_idx, lit_idx) ==
  LET lit == EngineLit(table, cl_idx, lit_idx) IN
  << Call("get_prepro_lit", cl_idx, lit_idx, lit) >>
    \o (IF lit = 0 THEN << >> ELSE ReadClauseCalls(table, cl_idx, lit_idx + 1))

PreproInstanceCalls(table, top, nobj) ==
  << Call("get_n_prepro_clauses", 0, 0, Len(table)),
     Call("get_top_weight", 0, 0, top) >>
    \o Concat([r \in 1 .. Len(table) |->
                 ReadClauseCalls(table, r - 1, 0)
                   \o [o \in 1 .. nobj |->
                         Call("get_prepro_weight", r - 1, o - 1,
                              EngineWeight(table, r - 1, o - 1))]])

Init ==
  /\ phase = "none"
  /\ given = NoArgs
  /\ supplied = 0
  /\ n_obj = 0
  /\ eng_top = 0
  /\ eng_table = << >>
  /\ eng_assign = << >>
  /\ extracted = << >>
  /\ calls = << >>
  /\ lastOp = "none"
  /\ ret = NoRet

NewInputs(hards, softs, inprocessing) ==
  /\ phase = "none"
  /\ \E ords \in OrderChoices(softs) :
       LET ws == FoldWeights(softs, ords)
           top == TopOf(softs, ords)
           cs == NewCalls(hards, softs, ords, inprocessing)
       IN
       \/ \* the build checks overflow and the fold overflows: new panics
          /\ FoldOverflows(ws, 1)
          /\ phase' = "aborted"
          /\ given' = << [hards |-> hards, softs |-> softs,
                          inprocessing |-> inprocessing] >>
          /\ lastOp' = "new"
          /\ ret' = [kind |-> "panic"]
          /\ supplied' = Len(softs)
          /\ UNCHANGED <<n_obj, eng_top, eng_table, eng_assign, extracted, calls>>
       \/ \E pad \in {0, top} :
            /\ phase' = "live"
            /\ given' = << [hards |-> hards, softs |-> softs,
                            inprocessing |-> inprocessing] >>
            /\ supplied' = Len(softs)
            /\ n_obj' = Len(softs)
            /\ calls' = cs
            /\ eng_top' = top
            /\ eng_table' = EngineTable(cs, Len(softs), top, pad)
            /\ eng_assign' = << >>
            /\ extracted' = << >>
            /\ lastOp' = "new"
            /\ ret' = [kind |-> "session"]

RECURSIVE SumSeq(_)
SumSeq(ns) == IF ns = << >> THEN 0 ELSE Head(ns) + SumSeq(Tail(ns))
NSofts(softs) == SumSeq([i \in 1 .. Len(softs) |-> Cardinality(DOMAIN softs[i])])

SoftInputs == { softs \in SeqsUpTo(SoftMaps, MaxObjs) : NSofts(softs) <= MaxSofts }

\* MaxPre::new on every instance within the bounds.
NewAny ==
  /\ phase = "none"
  /\ \E hards \in SeqsUpTo(Clauses, MaxHards),
        softs \in SoftInputs,
        inprocessing \in BOOLEAN :
       NewInputs(hards, softs, inprocessing)

\* The instances a session is built from when its whole life is followed:
\* none, hard clauses only, an empty objective, a weight whose sum leaves the
\* machine word, one objective, two objectives sharing a clause.
SessionInputs ==
  { [hards |-> << >>, softs |-> << >>],
    [hards |-> << >>, softs |-> << (ClauseA :> UsizeMax) >>],
    [hards |-> << ClauseB >>, softs |-> << >>],
    [hards |-> << >>, softs |-> << EmptyMap >>],
    [hards |-> << ClauseA >>, softs |-> << (ClauseA :> 1) @@ (ClauseB :> 0) >>],
    [hards |-> << ClauseB >>,
     softs |-> << (ClauseA :> 1), (ClauseA :> 0) @@ (ClauseB :> 1) >>] }

\* MaxPre::new
New ==
  /\ phase = "none"
  /\ \E inp \in SessionInputs, inprocessing \in BOOLEAN :
       NewInputs(inp.hards, inp.softs, inprocessing)

\* MaxPre::top_weight
TopWeight ==
  /\ phase = "live"
  /\ calls' = << Call("get_top_weight", 0, 0, eng_top) >>
  /\ lastOp' = "top_weight"
  /\ ret' = [kind |-> "u64", val |-> eng_top]
  /\ UNCHANGED <<phase, given, supplied, n_obj, eng_top, eng_table, eng_assign,
                 extracted>>

\* The extractions kept for comparison: the last one and the one before it.
Remember(ex, val) ==
  IF Len(ex) < 2 THEN Append(ex, val) ELSE << ex[2], val >>

\* Variant of prepro_instance: reading the table out of the engine empties it.
PreproInstanceConsuming ==
  /\ phase = "live"
  /\ calls' = PreproInstanceCalls(eng_table, eng_top, n_obj)
  /\ lastOp' = "prepro_instance"
  /\ ret' = [kind |-> "instance",
             val |-> PreproInstanceOf(eng_table, eng_top, n_obj)]
  /\ extracted' = Remember(extracted, ret'.val)
  /\ eng_table' = << >>
  /\ UNCHANGED <<phase, given, supplied, n_obj, eng_top, eng_assign>>

\* MaxPre::prepro_instance
PreproInstance ==
  /\ phase = "live"
  /\ calls' = PreproInstanceCalls(eng_table, eng_top, n_obj)
  /\ lastOp' = "prepro_instance"
  /\ ret' = [kind |-> "instance",
             val |-> PreproInstanceOf(eng_table, eng_top, n_obj)]
  /\ extracted' = Remember(extracted, ret'.val)
  /\ UNCHANGED <<phase, given, supplied, n_obj, eng_top, eng_table, eng_assign>>

(***************************************************************************)
(* The engine's answers the wrapper cannot determine.                      *)
(***************************************************************************)
\* The top weight the engine may hold after preprocessing; the weights of its
\* table lie below it, on it and above it (TableWeights).
PreproTops == {1}
\* Clause tables the engine may hold after preprocessing.
TableWeights(top) == {0, top, top + 1}
TableRows(nobj, top) ==
  { [lits |-> [k \in 1 .. Len(cl) |-> ToIpasir(cl[k])], ws |-> ws] :
      cl \in Clauses, ws \in [1 .. nobj -> TableWeights(top)] }
PreproTables(nobj, top) == SeqsUpTo(TableRows(nobj, top), MaxRows)
\* Status results: ffi::FALSE rejects, anything else accepts.
StatusAnswers == {FFI_FALSE, 1}
\* Results of cmaxpre_add_var and cmaxpre_add_label: 0 rejects.
NewVarAnswers == {0, 3}
NewLabelAnswers == {0, 4}
\* Per-objective removed weights.
RemovedAnswers == {0, 1}

\* Arguments of the label operations.
Labels == { PosLit(2) }
LabelWeights == { 1 }

\* What preprocessing may leave in the engine, seen from a session: it keeps
\* or changes the top weight, and keeps the clause table or simplifies every
\* clause away.  (ExtractInit ranges over every table of PreproTables.)
PreprocessOutcomes(table, top) ==
  { [top |-> t, table |-> tb] : t \in {top} \cup PreproTops, tb \in {table, << >>} }

\* MaxPre::preprocess
Preprocess ==
  /\ phase = "live"
  /\ \E add_removed_weight \in BOOLEAN :
       \E out \in PreprocessOutcomes(eng_table, eng_top) :
         /\ calls' = << Call("preprocess", MapBool(add_removed_weight), 0, 0) >>
         /\ eng_top' = out.top
         /\ eng_table' = out.table
  /\ given' = << >>
  /\ lastOp' = "preprocess"
  /\ ret' = [kind |-> "unit"]
  /\ extracted' = << >>
  /\ UNCHANGED <<phase, supplied, n_obj, eng_assign>>

\* MaxPre::add_var
AddVarResult(v) ==
  IF v = 0 THEN [kind |-> "err"]
  ELSE [kind |-> "ok", val |-> LitVar(FromIpasir(v))]

AddVar ==
  /\ phase = "live"
  /\ \E v \in NewVarAnswers :
       /\ calls' = << Call("add_var", 0, 0, v) >>
       /\ ret' = AddVarResult(v)
  /\ given' = << >>
  /\ lastOp' = "add_var"
  /\ extracted' = << >>
  /\ UNCHANGED <<phase, supplied, n_obj, eng_top, eng_table, eng_assign>>

\* MaxPre::add_clause: only the terminator's result is looked at.
AddClauseResult(rs) ==
  IF rs[Len(rs)] = FFI_FALSE THEN [kind |-> "err"] ELSE [kind |-> "ok"]

AddClauseCalls(clause, rs) ==
  [k \in 1 .. Len(clause) + 1 |->
     IF k <= Len(clause)
       THEN Call("add_lit", ToIpasir(clause[k]), 0, rs[k])
       ELSE Call("add_lit", 0, 0, rs[k])]

AddClause ==
  /\ phase = "live"
  /\ \E clause \in Clauses :
       \E rs \in [1 .. Len(clause) + 1 -> StatusAnswers] :
         /\ calls' = AddClauseCalls(clause, rs)
         /\ ret' = AddClauseResult(rs)
  /\ given' = << >>
  /\ lastOp' = "add_clause"
  /\ extracted' = << >>
  /\ UNCHANGED <<phase, supplied, n_obj, eng_top, eng_table, eng_assign>>

\* MaxPre::add_label
AddLabelResult(l) ==
  IF l = 0 THEN [kind |-> "err"] ELSE [kind |-> "ok", val |-> FromIpasir(l)]

AddLabel ==
  /\ phase = "live"
  /\ \E label \in Labels, weight \in LabelWeights, l \in NewLabelAnswers :
       /\ calls' = << Call("add_label", ToIpasir(label), weight, l) >>
       /\ ret' = AddLabelResult(l)
  /\ given' = << >>
  /\ lastOp' = "add_label"
  /\ extracted' = << >>
  /\ UNCHANGED <<phase, supplied, n_obj, eng_top, eng_table, eng_assign>>

\* Variant of StatusResult: the test inverted.
StatusResultInverted(r) == IF r # FFI_FALSE THEN [kind |-> "err"] ELSE [kind |-> "ok"]

\* The Result of the operations that test the engine's status against ffi::FALSE.
StatusResult(r) == IF r = FFI_FALSE THEN [kind |-> "err"] ELSE [kind |-> "ok"]

\* MaxPre::alter_weight
AlterWeight ==
  /\ phase = "live"
  /\ \E label \in Labels, weight \in LabelWeights, r \in StatusAnswers :
       /\ calls' = << Call("alter_weight", ToIpasir(label), weight, r) >>
       /\ ret' = StatusResult(r)
  /\ given' = << >>
  /\ lastOp' = "alter_weight"
  /\ extracted' = << >>
  /\ UNCHANGED <<phase, supplied, n_obj, eng_top, eng_table, eng_assign>>

\* MaxPre::label_to_var
LabelToVar ==
  /\ phase = "live"
  /\ \E label \in Labels, r \in StatusAnswers :
       /\ calls' = << Call("label_to_var", ToIpasir(label), 0, r) >>
       /\ ret' = StatusResult(r)
  /\ given' = << >>
  /\ lastOp' = "label_to_var"
  /\ extracted' = << >>
  /\ UNCHANGED <<phase, supplied, n_obj, eng_top, eng_table, eng_assign>>

\* MaxPre::reset_removed_weight
ResetRemovedWeight ==
  /\ phase = "live"
  /\ \E r \in StatusAnswers :
       /\ calls' = << Call("reset_removed_weight", 0, 0, r) >>
       /\ ret' = StatusResult(r)
  /\ given' = << >>
  /\ lastOp' = "reset_removed_weight"
  /\ extracted' = << >>
  /\ UNCHANGED <<phase, supplied, n_obj, eng_top, eng_table, eng_assign>>

\* MaxPre::removed_weight: one query for each obj_idx in 0..n_obj.
RemovedWeightCalls(nobj, rw) ==
  [k \in 1 .. nobj |-> Call("get_removed_weight", k - 1, 0, rw[k])]

RemovedWeight ==
  /\ phase = "live"
  /\ \E rw \in [1 .. n_obj -> RemovedAnswers] :
       /\ calls' = RemovedWeightCalls(n_obj, rw)
       /\ ret' = [kind |-> "weights",
                  val |-> [k \in 1 .. Len(calls') |-> calls'[k].r]]
  /\ lastOp' = "removed_weight"
  /\ UNCHANGED <<phase, given, supplied, n_obj, eng_top, eng_table, eng_assign,
                 extracted>>

\* Options: each field is None or Some(value).
None == << >>
Some(v) == << v >>
OptBool == { None, Some(TRUE), Some(FALSE) }
OptInt == { None, Some(5) }
AllOptions ==
  [bve_gate_extraction : OptBool, label_matching : OptBool,
   skip_technique : OptInt, bve_sort_max_first : OptBool,
   bve_local_grow_limit : OptInt, bve_global_grow_limit : OptInt,
   max_bbtms_vars : OptInt, harden_in_model_search : OptBool,
   model_search_iter_limits : OptInt]
NumPresent(o) ==
  Cardinality({ f \in DOMAIN o : o[f] # None })
\* The options of type Option<bool>, and the values an option may carry.
BoolOptions ==
  { "bve_gate_extraction", "label_matching", "bve_sort_max_first",
    "harden_in_model_search" }
OptionValues(f) == IF f \in BoolOptions THEN OptBool ELSE OptInt
OptionNames ==
  { "bve_gate_extraction", "label_matching", "skip_technique",
    "bve_sort_max_first", "bve_local_grow_limit", "bve_global_grow_limit",
    "max_bbtms_vars", "harden_in_model_search", "model_search_iter_limits" }
\* Options::default()
NoOptions == [f \in OptionNames |-> None]
\* The options handed to set_options: none, a single one, or all of them (the
\* boolean ones then all alike).
OptionInputs ==
  UNION { { [NoOptions EXCEPT ![f] = v] : v \in OptionValues(f) } : f \in OptionNames }
    \cup { [f \in OptionNames |-> IF f \in BoolOptions THEN Some(b) ELSE Some(5)] :
            b \in BOOLEAN }

\* if let Some(val) = field { setter(handle, arg(val)) }
IfSome(field, setter, asBool) ==
  IF field = None THEN << >>
  ELSE << Call(setter, IF asBool THEN MapBool(field[1]) ELSE field[1], 0, 0) >>

SetOptionsCalls(opts) ==
  IfSome(opts.bve_sort_max_first, "set_bve_gate_extraction", TRUE)
    \o IfSome(opts.label_matching, "set_label_matching", TRUE)
    \o IfSome(opts.skip_technique, "set_skip_technique", FALSE)
    \o IfSome(opts.bve_sort_max_first, "set_bve_sort_max_first", TRUE)
    \o IfSome(opts.bve_local_grow_limit, "set_bve_local_grow_limit", FALSE)
    \o IfSome(opts.bve_global_grow_limit, "set_bve_global_grow_limit", FALSE)
    \o IfSome(opts.max_bbtms_vars, "set_max_bbtms_vars", FALSE)
    \o IfSome(opts.harden_in_model_search, "set_harden_in_model_search", TRUE)
    \o IfSome(opts.model_search_iter_limits, "set_model_search_iter_limit", FALSE)

\* MaxPre::set_options
SetOptions ==
  /\ phase = "live"
  /\ \E opts \in OptionInputs :
       /\ calls' = SetOptionsCalls(opts)
       /\ ret' = [kind |-> "unit", arg |-> opts]
  /\ given' = << >>
  /\ lastOp' = "set_options"
  /\ extracted' = << >>
  /\ UNCHANGED <<phase, supplied, n_obj, eng_top, eng_table, eng_assign>>

\* Assignments handed to reconstruct: {}, {1} and {-1, 2}.
Assignments == { << >>, << PosLit(0) >>, << NegLit(0), PosLit(1) >> }

\* A reconstruct that hands every literal to the engine twice.
AssignmentCallsTwice(sol) ==
  [k \in 1 .. 2 * Len(sol) |->
     Call("assignment_add", ToIpasir(sol[(k + 1) \div 2]), 0, 0)]

AssignmentCalls(sol) ==
  [k \in 1 .. Len(sol) |-> Call("assignment_add", ToIpasir(sol[k]), 0, 0)]

\* max_var.pos_lit().to_ipasir() for max_var = max_orig_var(), the engine
\* reporting n original variables.
MaxVarBound(n) == ToIpasir(PosLit(LitVar(FromIpasir(n))))

\* The literals the range 1..bound is mapped over.
ReconstructRange(n) == 1 .. (MaxVarBound(n) - 1)

\* The engine's side of the assignment buffer: cmaxpre_assignment_add appends
\* its literal.
IsPush(c) == c.f = "assignment_add"
EnginePushed(buf, cs) ==
  LET ps == SelectSeq(cs, IsPush) IN buf \o [k \in 1 .. Len(ps) |-> ps[k].x]

\* The buffer after the engine has used it (cmaxpre_reconstruct,
\* cmaxpre_print_solution_stdout): emptied, or left as it is.
EngineConsumed(buf) == { << >>, buf }

\* MaxPre::reconstruct
Reconstruct ==
  /\ phase = "live"
  /\ \E sol \in Assignments, n \in 0 .. MaxVar :
       LET pushes == AssignmentCalls(sol)
           buf == EnginePushed(eng_assign, pushes)
           pre == pushes
                    \o << Call("reconstruct", 0, 0, 0),
                          Call("get_original_variables", 0, 0, n) >>
       IN
       /\ Len(buf) <= MaxBuf
       /\ eng_assign' \in EngineConsumed(buf)
       /\ IF ~IpasirOk(n)
            THEN \* Lit::from_ipasir(0).unwrap() panics
                 /\ phase' = "panicked"
                 /\ calls' = pre
                 /\ ret' = [kind |-> "panic"]
            ELSE \E val \in [ReconstructRange(n) -> {-1, 1}] :
                   LET ls == [l \in ReconstructRange(n) |->
                                IF val[l] > 0 THEN FromIpasir(l) ELSE FromIpasir(-l)]
                   IN
                   /\ phase' = phase
                   /\ calls' = pre \o [l \in ReconstructRange(n) |->
                                         Call("reconstructed_val", l, 0, val[l])]
                   /\ ret' = [kind |-> "assignment", arg |-> sol, max |-> n,
                              buf |-> buf, val |-> ls]
  /\ given' = << >>
  /\ lastOp' = "reconstruct"
  /\ UNCHANGED <<supplied, n_obj, eng_top, eng_table, extracted>>

\* Weights handed to print_solution.
SolutionWeights == { 1 }

\* MaxPre::print_solution
PrintSolution ==
  /\ phase = "live"
  /\ \E sol \in Assignments, weight \in SolutionWeights :
       LET pushes == AssignmentCalls(sol)
           buf == EnginePushed(eng_assign, pushes)
       IN
       /\ Len(buf) <= MaxBuf
       /\ eng_assign' \in EngineConsumed(buf)
       /\ calls' = pushes \o << Call("print_solution_stdout", weight, 0, 0) >>
       /\ ret' = [kind |-> "unit", arg |-> sol, buf |-> buf]
  /\ given' = << >>
  /\ lastOp' = "print_solution"
  /\ UNCHANGED <<phase, supplied, n_obj, eng_top, eng_table, extracted>>

(***************************************************************************)
(* The remaining readbacks of the session.                                 *)
(***************************************************************************)
\* Counts the engine reports for labels and fixed literals.
CountAnswers == {0, 1}
\* Literals the engine reports for a label or a fixed literal; 0 is no literal.
LitAnswers == {0, 3}

\* A call that reads from the engine and returns r.
ReadbackStep(op, cs, r) ==
  /\ phase = "live"
  /\ calls' = cs
  /\ lastOp' = op
  /\ ret' = r
  /\ UNCHANGED <<phase, given, supplied, n_obj, eng_top, eng_table, eng_assign,
                 extracted>>

\* MaxPre::signature: an associated function, no session is involved.
Signature ==
  /\ phase \in {"none", "live", "dropped"}
  /\ calls' = << Call("signature", 0, 0, 0) >>
  /\ lastOp' = "signature"
  /\ \E utf8 \in BOOLEAN :
       IF utf8
         THEN phase' = phase /\ ret' = [kind |-> "str"]
         ELSE \* .expect("MaxPre signature returned invalid UTF-8")
              /\ phase' = (IF phase = "live" THEN "panicked"
                            ELSE IF phase = "none" THEN "aborted" ELSE phase)
              /\ ret' = [kind |-> "panic"]
  /\ UNCHANGED <<given, supplied, n_obj, eng_top, eng_table, eng_assign, extracted>>

\* MaxPre::n_prepro_clauses
NPreproClauses ==
  ReadbackStep("n_prepro_clauses",
               << Call("get_n_prepro_clauses", 0, 0, Len(eng_table)) >>,
               [kind |-> "uint", val |-> Len(eng_table)])

\* MaxPre::n_prepro_labels
NPreproLabels ==
  \E n \in CountAnswers :
    ReadbackStep("n_prepro_labels", << Call("get_n_prepro_labels", 0, 0, n) >>,
                 [kind |-> "uint", val |-> n])

\* MaxPre::n_prepro_fixed_lits
NPreproFixedLits ==
  \E n \in CountAnswers :
    ReadbackStep("n_prepro_fixed_lits", << Call("get_n_prepro_fixed", 0, 0, n) >>,
                 [kind |-> "uint", val |-> n])

\* for idx in 0..n { push(Lit::from_ipasir(get(idx)).unwrap()) }: the calls up
\* to and including the first answer of 0, where unwrap panics.
LitListCalls(count, get, n, ls) ==
  LET zeros == { k \in 1 .. n : ls[k] = 0 }
      last == IF zeros = {} THEN n
              ELSE CHOOSE k \in zeros : \A z \in zeros : k <= z
  IN << Call(count, 0, 0, n) >> \o [k \in 1 .. last |-> Call(get, k - 1, 0, ls[k])]

LitListStep(op, count, get) ==
  /\ phase = "live"
  /\ \E n \in CountAnswers :
       \E ls \in [1 .. n -> LitAnswers] :
         /\ calls' = LitListCalls(count, get, n, ls)
         /\ IF \E k \in 1 .. n : ~IpasirOk(ls[k])
              THEN phase' = "panicked" /\ ret' = [kind |-> "panic"]
              ELSE /\ phase' = phase
                   /\ ret' = [kind |-> "lits",
                              val |-> [k \in 1 .. n |-> FromIpasir(ls[k])]]
  /\ lastOp' = op
  /\ UNCHANGED <<given, supplied, n_obj, eng_top, eng_table, eng_assign, extracted>>

\* MaxPre::prepro_labels
PreproLabels == LitListStep("prepro_labels", "get_n_prepro_labels", "get_prepro_label")

\* MaxPre::prepro_fixed_lits
PreproFixedLits ==
  LitListStep("prepro_fixed_lits", "get_n_prepro_fixed", "get_prepro_fixed_lit")

\* MaxPre::max_orig_var
MaxOrigVar ==
  /\ phase = "live"
  /\ \E n \in 0 .. MaxVar :
       /\ calls' = << Call("get_original_variables", 0, 0, n) >>
       /\ IF ~IpasirOk(n)
            THEN phase' = "panicked" /\ ret' = [kind |-> "panic"]
            ELSE phase' = phase /\ ret' = [kind |-> "var", val |-> LitVar(FromIpasir(n))]
  /\ lastOp' = "max_orig_var"
  /\ UNCHANGED <<given, supplied, n_obj, eng_top, eng_table, eng_assign, extracted>>

\* MaxPre::print_instance
PrintInstance ==
  ReadbackStep("print_instance", << Call("print_instance_stdout", 0, 0, 0) >>,
               [kind |-> "unit"])

\* MaxPre::print_map
PrintMap ==
  ReadbackStep("print_map", << Call("print_map_stdout", 0, 0, 0) >>, [kind |-> "unit"])

\* MaxPre::print_technique_log
PrintTechniqueLog ==
  ReadbackStep("print_technique_log", << Call("print_technique_log_stdout", 0, 0, 0) >>,
               [kind |-> "unit"])

\* MaxPre::print_info_log
PrintInfoLog ==
  ReadbackStep("print_info_log", << Call("print_info_log_stdout", 0, 0, 0) >>,
               [kind |-> "unit"])

\* MaxPre::print_stats
PrintStats ==
  ReadbackStep("print_stats", << Call("print_preprocessor_stats_stdout", 0, 0, 0) >>,
               [kind |-> "unit"])

(***************************************************************************)
(* The instance-level extractions (sat.rs, opt.rs, multiopt.rs) on top of  *)
(* the clause-level one.                                                   *)
(***************************************************************************)
\* <Self as PreproClauses>::prepro_instance for MaxPre: MaxPre::prepro_instance.
PreproClausesInstance(table, top, nobj) == PreproInstanceOf(table, top, nobj)

\* debug_assert!(cond): a build with debug assertions panics when cond is
\* false, a build without them goes on.
AssertOutcomes(cond) == IF cond THEN { "pass" } ELSE { "panic", "pass" }

\* What the three extractions share.
ExtractStep(op, out) ==
  /\ phase = "live"
  /\ calls' = PreproInstanceCalls(eng_table, eng_top, n_obj)
  /\ extracted' = Remember(extracted, out)
  /\ lastOp' = op
  /\ UNCHANGED <<given, supplied, n_obj, eng_top, eng_table, eng_assign>>

\* PreproSat::prepro_instance
PreproSatInstance ==
  LET out == PreproClausesInstance(eng_table, eng_top, n_obj) IN
  /\ ExtractStep("sat_prepro_instance", out)
  /\ \E a \in AssertOutcomes(out.softs = << >>) :
       IF a = "panic"
         THEN phase' = "panicked" /\ ret' = [kind |-> "panic"]
         ELSE phase' = phase /\ ret' = [kind |-> "sat_instance", val |-> out.hards]

\* PreproOpt::prepro_instance
PreproOptInstance ==
  LET out == PreproClausesInstance(eng_table, eng_top, n_obj) IN
  /\ ExtractStep("opt_prepro_instance", out)
  /\ \E a \in AssertOutcomes(Len(out.softs) = 1) :
       IF a = "panic" \/ out.softs = << >>
         THEN \* the assertion, or panic!() when there is no last objective
              phase' = "panicked" /\ ret' = [kind |-> "panic"]
         ELSE /\ phase' = phase
              /\ ret' = [kind |-> "opt_instance", hards |-> out.hards,
                         obj |-> out.softs[Len(out.softs)]]

\* PreproMultiOpt::prepro_instance
PreproMultiOptInstance ==
  LET out == PreproClausesInstance(eng_table, eng_top, n_obj) IN
  /\ ExtractStep("multiopt_prepro_instance", out)
  /\ phase' = phase
  /\ ret' = [kind |-> "multiopt_instance", val |-> out]

\* Variant of Drop: the release leaves the session usable.
DropStaysLive ==
  /\ phase \in {"live", "panicked"}
  /\ phase' = "live"
  /\ calls' = << Call("release", 0, 0, 0) >>
  /\ given' = << >>
  /\ lastOp' = "drop"
  /\ ret' = [kind |-> "unit"]
  /\ UNCHANGED <<supplied, n_obj, eng_top, eng_table, eng_assign, extracted>>

\* Drop for MaxPre
Drop ==
  /\ phase \in {"live", "panicked"}
  /\ phase' = "dropped"
  /\ calls' = << Call("release", 0, 0, 0) >>
  /\ given' = << >>
  /\ eng_top' = 0
  /\ eng_table' = << >>
  /\ eng_assign' = << >>
  /\ extracted' = << >>
  /\ lastOp' = "drop"
  /\ ret' = [kind |-> "unit"]
  /\ UNCHANGED <<supplied, n_obj>>

(***************************************************************************)
(* The access every operation requires: &mut self or &self.                *)
(***************************************************************************)
ExclusiveOps ==
  { "preprocess", "add_var", "add_clause", "add_label", "alter_weight",
    "label_to_var", "reset_removed_weight", "set_options", "drop",
    "sat_prepro_instance", "opt_prepro_instance", "multiopt_prepro_instance" }
SharedOps ==
  { "top_weight", "n_prepro_clauses", "n_prepro_labels", "n_prepro_fixed_lits",
    "prepro_instance", "prepro_labels", "prepro_fixed_lits", "max_orig_var",
    "reconstruct", "removed_weight", "print_instance", "print_solution",
    "print_map", "print_technique_log", "print_info_log", "print_stats" }

\* The engine calls that change the engine's state; every other call reads.
EngineWrites ==
  { "init_start", "init_add_lit", "init_add_weight", "init_finalize",
    "preprocess", "add_var", "add_lit", "add_label", "alter_weight",
    "label_to_var", "reset_removed_weight", "assignment_add", "reconstruct",
    "release",
    "set_bve_gate_extraction", "set_label_matching", "set_skip_technique",
    "set_bve_sort_max_first", "set_bve_local_grow_limit",
    "set_bve_global_grow_limit", "set_max_bbtms_vars",
    "set_harden_in_model_search", "set_model_search_iter_limit" }

\* The engine calls that take no handle.
HandleFree == { "signature" }

Next ==
  \/ New
  \/ TopWeight
  \/ PreproInstance
  \/ Preprocess
  \/ AddVar
  \/ AddClause
  \/ AddLabel
  \/ AlterWeight
  \/ LabelToVar
  \/ ResetRemovedWeight
  \/ RemovedWeight
  \/ SetOptions
  \/ Reconstruct
  \/ PrintSolution
  \/ Signature
  \/ NPreproClauses
  \/ NPreproLabels
  \/ NPreproFixedLits
  \/ PreproLabels
  \/ PreproFixedLits
  \/ MaxOrigVar
  \/ PrintInstance
  \/ PrintMap
  \/ PrintTechniqueLog
  \/ PrintInfoLog
  \/ PrintStats
  \/ PreproSatInstance
  \/ PreproOptInstance
  \/ PreproMultiOptInstance
  \/ Drop

Spec == Init /\ [][Next]_vars

(***************************************************************************)
(* The extraction on its own: a live session whose engine has preprocessed *)
(* and holds any table of PreproTables, extracted by prepro_instance.      *)
(***************************************************************************)
ExtractInit ==
  /\ phase = "live"
  /\ given = << >>
  /\ n_obj \in 0 .. MaxObjs
  /\ supplied = n_obj
  /\ eng_top \in PreproTops
  /\ eng_table \in PreproTables(n_obj, eng_top)
  /\ eng_assign = << >>
  /\ extracted = << >>
  /\ calls = << Call("preprocess", 0, 0, 0) >>
  /\ lastOp = "preprocess"
  /\ ret = [kind |-> "unit"]

ExtractNext == PreproInstance

SpecExtract == ExtractInit /\ [][ExtractNext]_vars

(***************************************************************************)
(* The instance-level extractions on their own: a session as PreproSat::new *)
(* (no objective) or PreproOpt::new (one objective) makes it, with every    *)
(* table the engine may hold.                                              *)
(***************************************************************************)
TraitInit ==
  /\ phase = "live"
  /\ given = << >>
  /\ n_obj \in 0 .. 1
  /\ supplied = n_obj
  /\ eng_top \in PreproTops
  /\ eng_table \in PreproTables(n_obj, eng_top)
  /\ eng_assign = << >>
  /\ extracted = << >>
  /\ calls = << Call("preprocess", 0, 0, 0) >>
  /\ lastOp = "preprocess"
  /\ ret = [kind |-> "unit"]

TraitNext ==
  \/ PreproInstance
  \/ PreproSatInstance
  \/ PreproOptInstance
  \/ PreproMultiOptInstance

SpecTraits == TraitInit /\ [][TraitNext]_vars

(***************************************************************************)
(* Construction on its own: MaxPre::new on every instance within the       *)
(* bounds, read back before any other call.                                *)
(***************************************************************************)
NewNext ==
  \/ NewAny
  \/ TopWeight
  \/ PreproInstance

SpecNew == Init /\ [][NewNext]_vars

(***************************************************************************)
(* Helpers of the claims.                                                  *)
(***************************************************************************)
Range(f) == { f[x] : x \in DOMAIN f }

\* The mathematical (unbounded) sum of the weights of a map.
RECURSIVE MapSum(_)
MapSum(m) ==
  IF DOMAIN m = {} THEN 0
  ELSE LET c == CHOOSE x \in DOMAIN m : TRUE IN
       m[c] + MapSum([x \in (DOMAIN m) \ {c} |-> m[x]])

TotalWeight(softs) == SumSeq([i \in 1 .. Len(softs) |-> MapSum(softs[i])])

\* Only readbacks have run since MaxPre::new returned the session.
Fresh == phase = "live" /\ given # << >>

(***************************************************************************)
(* Reading the initialization stream of MaxPre::new: a segment is the run  *)
(* of calls that ends at a 0 terminator and starts after the previous one. *)
(***************************************************************************)
Max(S) == CHOOSE m \in S : \A x \in S : x <= m
\* The j-th smallest element of a set of numbers.
Nth(S, j) == CHOOSE k \in S : Cardinality({x \in S : x <= k}) = j

Terms(cs) == { k \in 1 .. Len(cs) : cs[k].f = "init_add_lit" /\ cs[k].x = 0 }
SegStart(cs, t) ==
  LET prev == { k \in Terms(cs) : k < t } IN
  IF prev = {} THEN 2 ELSE Max(prev) + 1
SegWeights(cs, t) == { k \in SegStart(cs, t) .. t : cs[k].f = "init_add_weight" }
NWeights(cs, t) == Cardinality(SegWeights(cs, t))
SoftTerms(cs) == { t \in Terms(cs) : SegWeights(cs, t) # {} }
HardTerms(cs) == { t \in Terms(cs) : SegWeights(cs, t) = {} }
\* The literals of a segment, after its weights, as streamed.
SegLits(cs, t) ==
  LET a == SegStart(cs, t) + NWeights(cs, t) IN
  [j \in 1 .. (t - a) |-> cs[a + j - 1].x]
IpasirOf(cl) == [j \in 1 .. Len(cl) |-> ToIpasir(cl[j])]

\* The 1-based objective the k-th soft clause of the input belongs to.
ObjOfSoft(softs, k) ==
  CHOOSE i \in 1 .. Len(softs) :
    /\ NSofts(SubSeq(softs, 1, i)) >= k
    /\ NSofts(SubSeq(softs, 1, i - 1)) < k

Constructed == phase = "live" /\ lastOp = "new"

(***************************************************************************)
(* C1: the top weight handed to the engine's open call is 1 plus the sum   *)
(* of all soft-clause weights of all objectives, and top_weight() returns  *)
(* that value immediately after construction.                              *)
(***************************************************************************)
C1_TopIsOnePlusSum ==
  Fresh =>
    LET want == 1 + TotalWeight(given[1].softs) IN
    /\ lastOp = "new" =>
         /\ calls[1].f = "init_start"
         /\ calls[1].x = want
    /\ lastOp = "top_weight" => ret.val = want

(***************************************************************************)
(* C2: reconstruct returns exactly one literal for every variable from 1   *)
(* up to and including the maximum original variable the engine reports,   *)
(* and nothing else; with maximum 1 and input {1} the output is {1}.       *)
(***************************************************************************)
C2_ReconstructTotal ==
  (lastOp = "reconstruct" /\ ret.kind = "assignment") =>
    /\ \A v \in 1 .. ret.max :
         Cardinality({ k \in DOMAIN ret.val : LitVar(ret.val[k]) + 1 = v }) = 1
    /\ \A k \in DOMAIN ret.val : LitVar(ret.val[k]) + 1 \in 1 .. ret.max

(***************************************************************************)
(* C3: prepro_instance classifies every row of the engine's table against  *)
(* the engine's current top weight: the row's clause goes to the hard set  *)
(* iff its weight under every objective index below n_obj equals the top   *)
(* weight; otherwise it is recorded as a soft clause of exactly the        *)
(* objectives where its weight differs, with that weight (in a map, so of  *)
(* two rows with the same literals the later one's weight stays).          *)
(***************************************************************************)
RowClause(r) == [k \in 1 .. Len(eng_table[r].lits) |-> FromIpasir(eng_table[r].lits[k])]
RowHard(r) == \A o \in 1 .. n_obj : eng_table[r].ws[o] = eng_top
HardRows == { r \in 1 .. Len(eng_table) : RowHard(r) }
\* The rows recorded as soft under objective o with clause c.
SoftRows(o, c) ==
  { r \in 1 .. Len(eng_table) : RowClause(r) = c /\ eng_table[r].ws[o] # eng_top }

C3_Classification ==
  lastOp = "prepro_instance" =>
    LET out == ret.val IN
    /\ Len(out.hards) = Cardinality(HardRows)
    /\ \A j \in 1 .. Len(out.hards) : out.hards[j] = RowClause(Nth(HardRows, j))
    /\ Len(out.softs) <= n_obj
    /\ \A r \in 1 .. Len(eng_table) : \A o \in 1 .. n_obj :
         eng_table[r].ws[o] # eng_top =>
           /\ o <= Len(out.softs)
           /\ RowClause(r) \in DOMAIN out.softs[o]
    /\ \A o \in 1 .. Len(out.softs) : \A c \in DOMAIN out.softs[o] :
         /\ SoftRows(o, c) # {}
         /\ out.softs[o][c] = eng_table[Max(SoftRows(o, c))].ws[o]

\* A table with a hard row, a row soft under one objective only, and a weight
\* above the top weight has been extracted.
C3_Witness ==
  /\ lastOp = "prepro_instance"
  /\ n_obj = 2
  /\ HardRows # {}
  /\ \E r \in 1 .. Len(eng_table) :
       /\ eng_table[r].ws[1] = eng_top
       /\ eng_table[r].ws[2] > eng_top
  /\ ret.val.hards # << >>
  /\ Len(ret.val.softs) = 2

(***************************************************************************)
(* C4: round trip without preprocessing.  Extracting right after           *)
(* construction returns every supplied hard clause as a hard clause and    *)
(* every soft clause supplied under objective i with weight w as a soft    *)
(* clause of the same objective i with the same weight w.  Stated for the  *)
(* instances whose weights sum within the machine word.                    *)
(***************************************************************************)
C4_RoundTrip ==
  (/\ Fresh
   /\ lastOp = "prepro_instance"
   /\ 1 + TotalWeight(given[1].softs) <= UsizeMax) =>
    LET inp == given[1]
        out == ret.val
    IN
    /\ \A h \in Range(inp.hards) : h \in Range(out.hards)
    /\ \A i \in 1 .. Len(inp.softs) :
         \A cl \in DOMAIN inp.softs[i] :
           /\ i <= Len(out.softs)
           /\ cl \in DOMAIN out.softs[i]
           /\ out.softs[i][cl] = inp.softs[i][cl]

(***************************************************************************)
(* C5 as claimed: in the result of prepro_instance no clause is both in    *)
(* the hard set and in the soft map of some objective, for every engine    *)
(* table, also one holding the same literals in more than one row.         *)
(***************************************************************************)
HardSoftDisjoint(out) ==
  \A c \in Range(out.hards) : \A o \in 1 .. Len(out.softs) : c \notin DOMAIN out.softs[o]

C5_HardSoftDisjoint ==
  lastOp = "prepro_instance" => HardSoftDisjoint(ret.val)

(***************************************************************************)
(* C5 as amended: every row of the engine's table is returned as a hard    *)
(* clause or as a soft clause of at least one objective, and no clause is  *)
(* both hard and soft when no two rows of the table carry the same         *)
(* literals.                                                               *)
(***************************************************************************)
RowsDiffer ==
  \A r1, r2 \in 1 .. Len(eng_table) : r1 # r2 => eng_table[r1].lits # eng_table[r2].lits

C5_DisjointWhenRowsDiffer ==
  lastOp = "prepro_instance" =>
    LET out == ret.val IN
    /\ \A r \in 1 .. Len(eng_table) :
         \/ RowClause(r) \in Range(out.hards)
         \/ \E o \in 1 .. Len(out.softs) : RowClause(r) \in DOMAIN out.softs[o]
    /\ RowsDiffer => HardSoftDisjoint(out)

\* A table of two different clauses, one hard and one soft, has been extracted.
C5_Witness ==
  /\ lastOp = "prepro_instance"
  /\ Len(eng_table) = 2
  /\ RowsDiffer
  /\ ret.val.hards # << >>
  /\ \E o \in 1 .. Len(ret.val.softs) : DOMAIN ret.val.softs[o] # {}

(***************************************************************************)
(* C6: construction calls, on one handle, open exactly once and first,     *)
(* then every hard clause (literals, then one 0) before any soft weight or *)
(* literal, then the soft clauses objective by objective in increasing     *)
(* index, then finalize exactly once; and no operation after construction  *)
(* issues an initialization call (open, init literal, init weight or       *)
(* finalize) again.                                                        *)
(***************************************************************************)
InitCalls == { "init_start", "init_add_lit", "init_add_weight", "init_finalize" }

C6_CallOrder ==
  /\ Constructed =>
       LET cs == calls
           hards == given[1].hards
           softs == given[1].softs
       IN
       /\ cs[1].f = "init_start"
       /\ cs[Len(cs)].f = "init_finalize"
       /\ \A k \in 2 .. Len(cs) - 1 : cs[k].f \in {"init_add_lit", "init_add_weight"}
       /\ Terms(cs) = {} => Len(cs) = 2
       /\ Terms(cs) # {} => Max(Terms(cs)) = Len(cs) - 1
       \* the hard clauses, in order, each closed by one terminator
       /\ Cardinality(HardTerms(cs)) = Len(hards)
       /\ \A j \in 1 .. Len(hards) :
            SegLits(cs, Nth(HardTerms(cs), j)) = IpasirOf(hards[j])
       \* before any soft weight or literal
       /\ \A h \in HardTerms(cs) : \A t \in SoftTerms(cs) : h < SegStart(cs, t)
       \* objective by objective, in increasing index
       /\ Cardinality(SoftTerms(cs)) = NSofts(softs)
       /\ \A k \in 1 .. NSofts(softs) :
            LET t == Nth(SoftTerms(cs), k)
                i == ObjOfSoft(softs, k)
                cl == [j \in DOMAIN SegLits(cs, t) |-> FromIpasir(SegLits(cs, t)[j])]
            IN /\ cl \in DOMAIN softs[i]
               /\ cs[SegStart(cs, t) + NWeights(cs, t) - 1].x = softs[i][cl]
  /\ lastOp # "new" => \A k \in 1 .. Len(calls) : calls[k].f \notin InitCalls

\* A session built from a hard clause and two non-empty objectives.
C6_Witness ==
  /\ Constructed
  /\ given[1].hards # << >>
  /\ Len(given[1].softs) = 2
  /\ \A i \in 1 .. 2 : DOMAIN given[1].softs[i] # {}

(***************************************************************************)
(* C7: for every soft clause of the objective with index i and weight w,   *)
(* new streams, with nothing in between, exactly i weights 0, then w, then *)
(* each literal of the clause as a non-zero integer, then one 0; no weight *)
(* follows a literal of the same clause.                                   *)
(***************************************************************************)
\* The segment ending at t is i zero weights, w, the literals of cl, and 0.
SoftSegmentIs(cs, t, i, cl, w) ==
  LET a == SegStart(cs, t) IN
  /\ t = a + i + 1 + Len(cl)
  /\ \A k \in a .. a + i - 1 : cs[k].f = "init_add_weight" /\ cs[k].x = 0
  /\ cs[a + i].f = "init_add_weight" /\ cs[a + i].x = w
  /\ \A j \in 1 .. Len(cl) :
       /\ cs[a + i + j].f = "init_add_lit"
       /\ cs[a + i + j].x = ToIpasir(cl[j])
       /\ cs[a + i + j].x # 0

C7_SoftClauseStream ==
  Constructed =>
    LET cs == calls
        softs == given[1].softs
    IN
    /\ Cardinality(SoftTerms(cs)) = NSofts(softs)
    /\ \A i \in 1 .. Len(softs) : \A cl \in DOMAIN softs[i] :
         Cardinality({ t \in SoftTerms(cs) :
                         SoftSegmentIs(cs, t, i - 1, cl, softs[i][cl]) }) = 1

\* A two-literal soft clause of the objective with index 1 has been streamed.
C7_Witness ==
  /\ Constructed
  /\ Len(given[1].softs) = 2
  /\ ClauseB \in DOMAIN given[1].softs[2]
  /\ given[1].softs[2][ClauseB] = 1

C9_ObjectiveCountFixed ==
  /\ phase = "live" => n_obj = supplied
  /\ (phase = "live" /\ lastOp = "removed_weight") => Len(ret.val) = supplied
  /\ (phase = "live" /\ lastOp = "prepro_instance") => Len(ret.val.softs) <= supplied

\* After a mutating call, prepro_instance returned as many objectives as supplied.
C9_Witness ==
  /\ phase = "live"
  /\ given = << >>
  /\ supplied = 2
  /\ lastOp = "prepro_instance"
  /\ Len(ret.val.softs) = 2

(***************************************************************************)
(* C10: add_var, add_label, alter_weight, label_to_var and                 *)
(* reset_removed_weight make exactly one engine call each and fail iff the *)
(* engine rejects (0 for add_var and add_label, false for the others);     *)
(* otherwise they succeed, add_var and add_label with the variable or      *)
(* literal decoded from the engine's result; the session stays live.       *)
(***************************************************************************)
C10_Ops ==
  { "add_var", "add_label", "alter_weight", "label_to_var", "reset_removed_weight" }

C10_RejectionIsRecoverable ==
  lastOp \in C10_Ops =>
    /\ phase = "live"
    /\ Len(calls) = 1
    /\ calls[1].f = lastOp
    /\ ret.kind \in {"ok", "err"}
    /\ ret.kind = "err" <=> calls[1].r = 0
    /\ (lastOp = "add_var" /\ ret.kind = "ok") =>
         ret.val + 1 = (IF calls[1].r < 0 THEN -calls[1].r ELSE calls[1].r)
    /\ (lastOp = "add_label" /\ ret.kind = "ok") => ToIpasir(ret.val) = calls[1].r

\* The engine rejected a label_to_var and the session is still live.
C10_Witness ==
  /\ lastOp = "label_to_var"
  /\ ret.kind = "err"
  /\ phase = "live"

(***************************************************************************)
(* C11: add_clause streams every literal of the clause and then exactly    *)
(* one 0 terminator, and returns failure whenever the engine reports the   *)
(* addition invalid on any of these calls, a literal call or the           *)
(* terminator call; it returns success only if the engine accepted all.    *)
(***************************************************************************)
C11_AddClauseRejection ==
  lastOp = "add_clause" =>
    /\ calls # << >>
    /\ \A k \in 1 .. Len(calls) :
         /\ calls[k].f = "add_lit"
         /\ calls[k].x = 0 <=> k = Len(calls)
    /\ ret.kind = "err" <=> \E k \in 1 .. Len(calls) : calls[k].r = FFI_FALSE

(***************************************************************************)
(* C12: set_options forwards each option independently: the setter of an   *)
(* option is called, with that option's value, iff that option's value is  *)
(* present; an absent option causes no call to its setter, and no option   *)
(* influences the call made for another.                                   *)
(***************************************************************************)
\* The engine setter of each field of Options.
SetterOf ==
  [bve_gate_extraction |-> "set_bve_gate_extraction",
   label_matching |-> "set_label_matching",
   skip_technique |-> "set_skip_technique",
   bve_sort_max_first |-> "set_bve_sort_max_first",
   bve_local_grow_limit |-> "set_bve_local_grow_limit",
   bve_global_grow_limit |-> "set_bve_global_grow_limit",
   max_bbtms_vars |-> "set_max_bbtms_vars",
   harden_in_model_search |-> "set_harden_in_model_search",
   model_search_iter_limits |-> "set_model_search_iter_limit"]

\* The value of an option as it crosses the boundary.
OptionArg(f, v) == IF f \in BoolOptions THEN MapBool(v) ELSE v

C12_OptionsIndependent ==
  lastOp = "set_options" =>
    \A f \in DOMAIN SetterOf :
      LET to == { k \in 1 .. Len(calls) : calls[k].f = SetterOf[f] } IN
      IF ret.arg[f] = None THEN to = {}
      ELSE /\ Cardinality(to) = 1
           /\ \A k \in to : calls[k].x = OptionArg(f, ret.arg[f][1])

(***************************************************************************)
(* C13: the engine's release call is issued at most once for a session,    *)
(* by the drop of the owning value and by nothing else, and no engine call *)
(* on the handle is issued after the release.                              *)
(***************************************************************************)
Releases(cs) == { k \in 1 .. Len(cs) : cs[k].f = "release" }

C13_ReleaseOnce ==
  [][ /\ (calls' # calls /\ Releases(calls') # {}) =>
           /\ Cardinality(Releases(calls')) = 1
           /\ phase \in {"live", "panicked"}
           /\ lastOp' = "drop"
      /\ lastOp' = "drop" => phase' = "dropped" /\ Releases(calls') # {}
      /\ phase = "dropped" =>
           /\ phase' = "dropped"
           /\ \A k \in 1 .. Len(calls') : calls'[k].f \in HandleFree \cup {"release"}
           /\ Releases(calls') # {} => calls' = calls
    ]_vars

\* A session that was used, two objectives supplied, has been released.
C13_Witness ==
  /\ phase = "dropped"
  /\ lastOp = "drop"
  /\ supplied = 2
  /\ Releases(calls) # {}

(***************************************************************************)
(* C14: every operation that changes engine state, the assignment buffer   *)
(* included, requires exclusive access, and every operation callable with  *)
(* shared access is a pure readback that makes no writing engine call.     *)
(***************************************************************************)
C14_SingleWriter ==
  /\ lastOp \in SharedOps =>
       \A k \in 1 .. Len(calls) : calls[k].f \notin EngineWrites
  /\ (phase # "none" /\ \E k \in 1 .. Len(calls) : calls[k].f \in EngineWrites) =>
       lastOp \in ExclusiveOps \cup {"new"}

(***************************************************************************)
(* C15: the assignment protocol of reconstruct and print_solution.         *)
(***************************************************************************)
AssignmentOps == { "reconstruct", "print_solution" }
Pushes(cs) == { k \in 1 .. Len(cs) : IsPush(cs[k]) }
Uses(cs) == { k \in 1 .. Len(cs) : cs[k].f \in {"reconstruct", "print_solution_stdout"} }
Queries(cs) == { k \in 1 .. Len(cs) : cs[k].f = "reconstructed_val" }

\* Every push precedes the one call that uses the buffer, every query of a
\* reconstructed value follows it.
PushUseQuery(cs) ==
  /\ Cardinality(Uses(cs)) = 1
  /\ \A u \in Uses(cs) :
       /\ \A k \in Pushes(cs) : k < u
       /\ \A k \in Queries(cs) : k > u

\* The literals pushed by the call are those of its assignment, each once.
PushedOnce(cs, sol) == EnginePushed(<< >>, cs) = IpasirOf(sol)

\* The last n elements of a sequence.
Suffix(s, n) == SubSeq(s, Len(s) - n + 1, Len(s))

ExtractionOps ==
  { "prepro_instance", "sat_prepro_instance", "opt_prepro_instance",
    "multiopt_prepro_instance" }

Lits == { PosLit(v) : v \in 0 .. MaxVar } \cup { NegLit(v) : v \in 0 .. MaxVar }
IpasirInts == { i \in -(MaxVar + 1) .. (MaxVar + 1) : i # 0 }
Abs(i) == IF i < 0 THEN -i ELSE i

CodecBijection ==
  /\ \A l \in Lits :
       /\ ToIpasir(l) \in IpasirInts
       /\ Abs(ToIpasir(l)) >= 1
       /\ IpasirOk(ToIpasir(l))
       /\ FromIpasir(ToIpasir(l)) = l
  /\ \A i \in IpasirInts :
       /\ IpasirOk(i)
       /\ FromIpasir(i) \in Lits
       /\ ToIpasir(FromIpasir(i)) = i
  /\ ~IpasirOk(0)

\* The clauses an extraction returned.
ExtractedClauses(out) ==
  Range(out.hards) \cup UNION { DOMAIN out.softs[o] : o \in 1 .. Len(out.softs) }

\* The get_prepro_lit calls of row cl_idx, in order.
LitReads(cs, cl_idx) ==
  LET IsRead(c) == c.f = "get_prepro_lit" /\ c.x = cl_idx IN SelectSeq(cs, IsRead)

\* C17: encoding and decoding are inverse to each other between the literals
\* and the non-zero integers, the magnitude of an encoded literal is at
\* least 1, 0 is neither produced by encode nor accepted by decode; and in
\* prepro_instance the first 0 read for a row ends the row's clause: nothing is
\* read after it, and every literal of every returned clause is the decoding
\* of a non-zero integer of the table.
C17_CodecAndTerminator ==
  /\ CodecBijection
  /\ lastOp = "prepro_instance" =>
       /\ \A r \in 1 .. Len(eng_table) :
            LET rs == LitReads(calls, r - 1) IN
            /\ rs # << >>
            /\ \A k \in 1 .. Len(rs) : rs[k].r = 0 <=> k = Len(rs)
            /\ \A k \in 1 .. Len(rs) : rs[k].y = k - 1
       /\ \A c \in ExtractedClauses(ret.val) :
            /\ \A k \in 1 .. Len(c) : c[k] \in Lits
            /\ \E r \in 1 .. Len(eng_table) : IpasirOf(c) = eng_table[r].lits

C17_Witness ==
  /\ lastOp = "prepro_instance"
  /\ Len(eng_table) = 2
  /\ \E c \in ExtractedClauses(ret.val) :
       Len(c) = 2 /\ \E k \in 1 .. Len(c) : LitNeg(c[k])

(***************************************************************************)
(* C18: a session without objectives.                                      *)
(***************************************************************************)
AllRowClauses == [r \in 1 .. Len(eng_table) |-> RowClause(r)]

\* C18: with zero objectives prepro_instance asks for no weight, returns
\* every row of the engine's table as a hard clause, in order, and an empty
\* objective list; the assertion of PreproSat::prepro_instance holds, so it
\* never panics and returns those clauses.
C18_ZeroObjectives ==
  n_obj = 0 =>
    /\ lastOp \in ExtractionOps =>
         /\ \A k \in 1 .. Len(calls) : calls[k].f # "get_prepro_weight"
         /\ extracted # << >>
         /\ extracted[Len(extracted)] = [hards |-> AllRowClauses, softs |-> << >>]
    /\ lastOp = "prepro_instance" =>
         ret.val = [hards |-> AllRowClauses, softs |-> << >>]
    /\ lastOp = "sat_prepro_instance" =>
         /\ phase = "live"
         /\ ret = [kind |-> "sat_instance", val |-> AllRowClauses]

C18_Witness ==
  /\ n_obj = 0
  /\ lastOp = "sat_prepro_instance"
  /\ ret.kind = "sat_instance"
  /\ Len(ret.val) = 2
  /\ ret.val[1] # ret.val[2]

(***************************************************************************)
(* C19: a session with exactly one objective.                              *)
(***************************************************************************)
\* C19 as stated: with exactly one objective the clause-level extraction
\* returns an objective list of length exactly 1, and
\* PreproOpt::prepro_instance does not panic.
C19_OneObjectiveList ==
  n_obj = 1 =>
    /\ lastOp \in ExtractionOps =>
         /\ extracted # << >>
         /\ Len(extracted[Len(extracted)].softs) = 1
    /\ lastOp = "opt_prepro_instance" => ret.kind = "opt_instance"

(***************************************************************************)
(* C20: the top weight against the soft weights.                           *)
(***************************************************************************)
\* The sums of the weights of any choice of supplied soft clauses.
SubsetSums(softs) ==
  { SumSeq([i \in 1 .. Len(softs) |->
              MapSum([c \in (DOMAIN softs[i]) \cap sel[i] |-> softs[i][c]])]) :
      sel \in [1 .. Len(softs) -> SUBSET Clauses] }

\* C20 as stated: MaxPre::new completes on every input, and the top weight
\* it hands to the engine is strictly greater than every soft weight and
\* than the sum of any subset of the soft weights supplied.
C20_TopAboveEverySum ==
  lastOp = "new" =>
    /\ phase = "live"
    /\ calls[1].f = "init_start"
    /\ \A s \in SubsetSums(given[1].softs) : calls[1].x > s

(***************************************************************************)
(* C21: objectives do not leak into each other.                            *)
(***************************************************************************)
\* The objectives (1-based) under which the input supplies clause cl as soft.
SuppliedUnder(softs, cl) == { i \in 1 .. Len(softs) : cl \in DOMAIN softs[i] }
\* The objectives (1-based) under which the extraction returns cl as soft.
ExtractedUnder(out, cl) == { j \in 1 .. Len(out.softs) : cl \in DOMAIN out.softs[j] }

\* C21 as stated: when an instance with two or more objectives is extracted
\* right after construction, a clause supplied as soft under exactly one
\* objective i is returned as soft under i and under no other objective.
\* Stated for the instances whose weights sum within the machine word.
C21_NoCrossObjectiveLeak ==
  (/\ Fresh
   /\ lastOp = "prepro_instance"
   /\ Len(given[1].softs) >= 2
   /\ 1 + TotalWeight(given[1].softs) <= UsizeMax) =>
    \A cl \in Clauses :
      \A i \in SuppliedUnder(given[1].softs, cl) :
        SuppliedUnder(given[1].softs, cl) = {i} =>
          ExtractedUnder(ret.val, cl) \subseteq {i}

(***************************************************************************)
(* C22: extraction against the weights of the engine's table.              *)
(***************************************************************************)
\* The weight the table carries under objective o (1-based): the sum over
\* the rows whose weight under o is not the top weight.
TableWeight(o) ==
  SumSeq([r \in 1 .. Len(eng_table) |->
            IF eng_table[r].ws[o] # eng_top THEN eng_table[r].ws[o] ELSE 0])
\* The weight the extraction returned under objective o.
ExtractedWeight(out, o) == IF o <= Len(out.softs) THEN MapSum(out.softs[o]) ELSE 0
\* The clauses the extraction returned as soft under some objective.
SoftClauses(out) == UNION { DOMAIN out.softs[o] : o \in 1 .. Len(out.softs) }

\* C22 as stated: for every objective the weights of the returned soft map
\* sum to the weights of the table's rows that are soft under it, also when
\* rows share their literals, and the hard clauses plus the distinct soft
\* clauses returned are as many as the rows of the table.
C22_NoWeightLost ==
  lastOp = "prepro_instance" =>
    /\ \A o \in 1 .. n_obj : ExtractedWeight(ret.val, o) = TableWeight(o)
    /\ Len(ret.val.hards) + Cardinality(SoftClauses(ret.val)) = Len(eng_table)

====
